---- MODULE Spec2Model ----
(***************************************************************************)
(* cake: Layered[T](base, layers...) wires each layer's embedded interface *)
(* field to the next usable layer (or to the base) and returns the first   *)
(* usable layer.  If / IfCallback build the variadic argument list.        *)
(* The Layered modelled is the one with getLayerValue and entryLayer (the   *)
(* one that skips empty layers), with T = Service of the tests.            *)
(* Indices are 0-based as in the Go source; At(s, i) reads s[i].           *)
(***************************************************************************)
EXTENDS Integers, Sequences, FiniteSets, TLC

\* Longest variadic layer list a caller builds.
MaxLen == 3

\* var entryLayer = -1
NoEntry == -1

(***************************************************************************)
(* The values a caller can pass as a T.                                    *)
(***************************************************************************)
\* *new(T): the nil interface value.
NilIface == "nil"
\* A typed nil pointer, e.g. (*LayerB)(nil).
NilPtr == "nilPtr"
\* A non-pointer struct value with a non-zero field, e.g. LayerV{Service: x}.
StructVal == "structVal"
\* A non-nil value of a func type that implements T.
FuncVal == "funcVal"

\* &LayerB{}, &LayerC{}, &LayerD{}, &LayerE{}: pointers to struct{ Service }.
SlotLayers == {"LayerB", "LayerC", "LayerD", "LayerE"}
\* Pointer to a struct with no field named after T.
NoField == "NoField"
\* Pointer to a struct that reaches the field only through an unexported embedded struct.
ROField == "ROField"
\* Pointer to a non-struct type that implements T.
NonStruct == "NonStruct"
\* Pointer to a struct whose field named after T has a type the layers are not assignable to.
BadField == "BadField"

Pointers == SlotLayers \cup {NoField, ROField, NonStruct, BadField}
Values == {NilIface, NilPtr, StructVal, FuncVal} \cup Pointers

\* &LayerA{} is the base of every test; a caller may also pass a layer as the base.
Bases == {"LayerA", "LayerB"}

Ops == {"Fruits", "Veggies"}

\* The methods each test type declares itself; the others are promoted from the embedded Service.
Implements(l, op) ==
    CASE l = "LayerA" -> TRUE
      [] l = "LayerB" -> TRUE
      [] l = "LayerC" -> op = "Veggies"
      [] l = "LayerD" -> TRUE
      [] OTHER -> FALSE

Token(l, op) ==
    CASE l = "LayerA" -> IF op = "Fruits" THEN "Apple" ELSE "Artichoke"
      [] l = "LayerB" -> IF op = "Fruits" THEN "Banana" ELSE "Basil"
      [] l = "LayerC" -> "Cilantro"
      [] l = "LayerD" -> IF op = "Fruits" THEN "Durian" ELSE "Dill"
      [] OTHER -> "none"

At(s, k) == s[k + 1]

(***************************************************************************)
(* reflect, as far as getLayerValue and Layered use it.                    *)
(***************************************************************************)
Kind(v) ==
    CASE v = StructVal -> "struct"
      [] v = FuncVal -> "func"
      [] OTHER -> "ptr"

IsZero(v) == v = NilPtr

\* reflect.Value.IsNil panics unless the kind is chan, func, interface, map, pointer or slice.
IsNilPanics(v) == Kind(v) = "struct"

IsNil(v) == v = NilPtr

\* getLayerValue's bool, or "panic" when val.IsNil() is called on a struct Value.
getLayerValue(layer) ==
    IF layer = NilIface THEN "false"
    ELSE IF IsZero(layer) THEN "false"
    ELSE IF IsNilPanics(layer) THEN "panic"
    ELSE IF IsNil(layer) THEN "false"
    ELSE IF Kind(layer) # "ptr" THEN "false"
    ELSE "true"

\* curLayerValue.Elem().FieldByName(interfaceName): FieldByName panics on a non-struct Value.
FieldByName(layer) ==
    CASE layer \in SlotLayers -> "settable"
      [] layer = BadField -> "settable"
      [] layer = ROField -> "readonly"
      [] layer = NoField -> "invalid"
      [] OTHER -> "panic"

\* !targetField.IsValid() || !targetField.CanSet()
CannotSet(field) == field = "invalid" \/ field = "readonly"

\* targetField.Set(x) panics when x is not assignable to the field's type.
SetPanics(layer) == layer = BadField

(***************************************************************************)
(* Layered                                                                 *)
(***************************************************************************)
\* Mutant: the early return for an empty layer list is missing.
NoLayersUnchecked(layers) == FALSE

NoLayers(layers) == Len(layers) = 0

IsLast(layers, i) == i = Len(layers) - 1

\* Mutant: entryLayer is overwritten at every usable layer (the last layer is returned).
EntryOverwritten(entryLayer, i) == i

\* if entryLayer == -1 { entryLayer = i }
Entry(entryLayer, i) == IF entryLayer = NoEntry THEN i ELSE entryLayer

\* The positions the inner loop reads before it stops: up to the first j > i whose
\* getLayerValue is not false (true: the next layer; panic: the call panics there).
RECURSIVE Seek(_, _)
Seek(layers, j) ==
    IF j >= Len(layers) THEN [j |-> j, found |-> "none"]
    ELSE LET g == getLayerValue(At(layers, j))
         IN  IF g = "false" THEN Seek(layers, j + 1)
             ELSE [j |-> j, found |-> g]

\* Mutant: the next position is taken as the next layer without getLayerValue.
SeekAdjacent(layers, i) == [j |-> i + 1, found |-> "true"]

\* for j := i + 1; j < len(layers); j++
SeekNext(layers, i) == Seek(layers, i + 1)

\* Mutant: i = j, so the loop's i++ steps over the layer just wired in.
ResumeAfterNext(i, j) == j

\* Mutant: i is left alone, so the outer loop walks the empty positions itself.
ResumeInPlace(i, j) == i

\* i = j - 1 (the loop's i++ follows)
Resume(i, j) == j - 1

\* The loop's local state and what the call has produced so far.
\* status: "loop" (back at the loop head), "ok" / "error" / "panic" (the call has ended).
Frame(i, entryLayer, slot, visited, writes, status, ret) ==
    [i |-> i, entryLayer |-> entryLayer, slot |-> slot, visited |-> visited,
     writes |-> writes, status |-> status, ret |-> ret]

Panic(f) == [f EXCEPT !.status = "panic", !.ret = NilIface]

\* targetField.Set(x) on layers[f.i].
SetField(layers, f, x) ==
    LET l == At(layers, f.i)
    IN  IF SetPanics(l) THEN Panic(f)
        ELSE [f EXCEPT !.slot = [f.slot EXCEPT ![l] = x],
                       !.writes = Append(f.writes, <<f.i, x>>)]

\* return layers[entryLayer], nil: the index panics when entryLayer is still -1.
ReturnEntry(layers, f) ==
    IF f.entryLayer = NoEntry THEN Panic(f)
    ELSE [f EXCEPT !.status = "ok", !.ret = At(layers, f.entryLayer)]

\* break: control leaves the loop for the return statement.
Break(layers, f) == IF f.status = "panic" THEN f ELSE ReturnEntry(layers, f)

\* The statement after the body: i++ from the value the body left in i.
Continue(f, i) == IF f.status = "panic" THEN f ELSE [f EXCEPT !.i = i + 1]

\* One iteration of the outer loop at position f0.i < len(layers).
Iteration(base, layers, f0) ==
    LET f == [f0 EXCEPT !.visited = Append(f0.visited, f0.i)]
        l == At(layers, f.i)
        ok == getLayerValue(l)
    IN  IF ok = "panic" THEN Panic(f)
        ELSE IF ok = "false" THEN Continue(f, f.i)
        ELSE
          LET g == [f EXCEPT !.entryLayer = Entry(f.entryLayer, f.i)]
              field == FieldByName(l)
          IN  IF field = "panic" THEN Panic(g)
              ELSE IF CannotSet(field) THEN [g EXCEPT !.status = "error", !.ret = NilIface]
              ELSE IF IsLast(layers, g.i) THEN Break(layers, SetField(layers, g, base))
              ELSE
                LET n == SeekNext(layers, g.i)
                IN  IF n.found = "panic" THEN Panic(g)
                    ELSE IF n.found = "true"
                    THEN Continue(SetField(layers, g, At(layers, n.j)), Resume(g.i, n.j))
                    ELSE Break(layers, SetField(layers, g, base))

\* The loop from its head to the end of the call.
RECURSIVE Loop(_, _, _)
Loop(base, layers, f) ==
    IF f.status # "loop" THEN f
    ELSE IF f.i < Len(layers) THEN Loop(base, layers, Iteration(base, layers, f))
    ELSE ReturnEntry(layers, f)

NilSlots == [l \in SlotLayers |-> NilIface]

\* Layered(base, layers...) as a function of its arguments and the slots before the call.
Layered(base, layers, slot0) ==
    IF NoLayers(layers)
    THEN Frame(0, NoEntry, slot0, <<>>, <<>>, "ok", base)
    ELSE Loop(base, layers, Frame(0, NoEntry, slot0, <<>>, <<>>, "loop", NilIface))

(***************************************************************************)
(* If, IfCallback                                                          *)
(***************************************************************************)
\* If(cond, layer): the layer, or *new(T).
If(cond, layer) == IF cond THEN layer ELSE NilIface

\* IfCallback(cond, layer): layer() or *new(T), and how often layer was called;
\* made is the value the callback returns.
IfCallback(cond, made) ==
    IF cond THEN [result |-> made, calls |-> 1]
    ELSE [result |-> NilIface, calls |-> 0]

(***************************************************************************)
(* Calling a method of the composite                                       *)
(***************************************************************************)
\* Deepest chain of distinct receivers; a longer call never returns.
CallDepth == Cardinality(SlotLayers) + 1

\* v.op(): a layer that declares op appends its token to its Service's result, one that
\* does not is promoted to its Service's op; a nil Service is a nil dereference.
RECURSIVE Call(_, _, _, _)
Call(slot, v, op, depth) ==
    IF v = NilIface \/ depth = 0 THEN [ok |-> FALSE, words |-> <<>>]
    ELSE IF v \notin SlotLayers THEN [ok |-> TRUE, words |-> <<Token(v, op)>>]
    ELSE LET r == Call(slot, slot[v], op, depth - 1)
         IN  IF r.ok /\ Implements(v, op)
             THEN [ok |-> TRUE, words |-> Append(r.words, Token(v, op))]
             ELSE r

(***************************************************************************)
(* The program: a caller builds the layer list, calls Layered, then calls  *)
(* methods of the result.                                                  *)
(***************************************************************************)
VARIABLES
    base,        \* the base argument
    layers,      \* the variadic argument list
    kept,        \* the list with every layer whose condition was false left out
    helper,      \* the last If / IfCallback call
    pc,          \* "args", "loop" (at the head of Layered's loop), "done"
    i,           \* Layered's loop index
    entryLayer,  \* Layered's entryLayer
    slot,        \* the embedded Service field of every struct{ Service } layer
    visited,     \* the positions the outer loop's body ran at, in order
    writes,      \* the targetField.Set calls, <<position, value>>, in order
    status,      \* how the call ended: "ok", "error", "panic"
    ret,         \* the T the call returned
    op,          \* the method last called on the result
    words        \* what it returned

vars == <<base, layers, kept, helper, pc, i, entryLayer, slot, visited, writes,
          status, ret, op, words>>

NoHelper == [kind |-> "none", cond |-> FALSE, layer |-> NilIface, result |-> NilIface,
             calls |-> 0]
NoWords == [ok |-> FALSE, words |-> <<>>]

Init ==
    /\ base \in Bases
    /\ layers = <<>>
    /\ kept = <<>>
    /\ helper = NoHelper
    /\ pc = "args"
    /\ i = 0
    /\ entryLayer = NoEntry
    /\ slot = NilSlots
    /\ visited = <<>>
    /\ writes = <<>>
    /\ status = "none"
    /\ ret = NilIface
    /\ op = "none"
    /\ words = NoWords

callState == <<pc, i, entryLayer, slot, visited, writes, status, ret, op, words>>

\* The caller passes a layer as it is.
AddLayer(v) ==
    /\ pc = "args"
    /\ Len(layers) < MaxLen
    /\ layers' = Append(layers, v)
    /\ kept' = Append(kept, v)
    /\ helper' = NoHelper
    /\ UNCHANGED <<base, callState>>

\* The caller passes If(c, v).
AddIf(c, v) ==
    /\ pc = "args"
    /\ Len(layers) < MaxLen
    /\ layers' = Append(layers, If(c, v))
    /\ kept' = IF c THEN Append(kept, v) ELSE kept
    /\ helper' = [kind |-> "If", cond |-> c, layer |-> v, result |-> If(c, v), calls |-> 0]
    /\ UNCHANGED <<base, callState>>

\* The caller passes IfCallback(c, func() T { return v }).
AddIfCallback(c, v) ==
    /\ pc = "args"
    /\ Len(layers) < MaxLen
    /\ LET r == IfCallback(c, v)
       IN  /\ layers' = Append(layers, r.result)
           /\ helper' = [kind |-> "IfCallback", cond |-> c, layer |-> v,
                         result |-> r.result, calls |-> r.calls]
    /\ kept' = IF c THEN Append(kept, v) ELSE kept
    /\ UNCHANGED <<base, callState>>

Current == Frame(i, entryLayer, slot, visited, writes, "loop", NilIface)

Becomes(f) ==
    /\ i' = f.i
    /\ entryLayer' = f.entryLayer
    /\ slot' = f.slot
    /\ visited' = f.visited
    /\ writes' = f.writes
    /\ status' = IF f.status = "loop" THEN "none" ELSE f.status
    /\ ret' = f.ret
    /\ pc' = IF f.status = "loop" THEN "loop" ELSE "done"

\* Layered is called: the empty-list return, or the loop is entered.
Enter ==
    /\ pc = "args"
    /\ IF NoLayers(layers)
       THEN Becomes(Frame(0, NoEntry, slot, <<>>, <<>>, "ok", base))
       ELSE Becomes(Frame(0, NoEntry, slot, <<>>, <<>>, "loop", NilIface))
    /\ helper' = NoHelper
    /\ UNCHANGED <<base, layers, kept, op, words>>

\* One iteration of the outer loop, its inner loop included.
LoopIter ==
    /\ pc = "loop"
    /\ i < Len(layers)
    /\ Becomes(Iteration(base, layers, Current))
    /\ UNCHANGED <<base, layers, kept, helper, op, words>>

\* The loop condition fails: return layers[entryLayer], nil.
LoopExit ==
    /\ pc = "loop"
    /\ i >= Len(layers)
    /\ Becomes(ReturnEntry(layers, Current))
    /\ UNCHANGED <<base, layers, kept, helper, op, words>>

\* The caller calls a method of the T that Layered returned.
Invoke(o) ==
    /\ pc = "done"
    /\ status = "ok"
    /\ op' = o
    /\ words' = Call(slot, ret, o, CallDepth)
    /\ UNCHANGED <<base, layers, kept, helper, pc, i, entryLayer, slot, visited, writes,
                   status, ret>>

Next ==
    \/ \E v \in Values : AddLayer(v)
    \/ \E c \in BOOLEAN, v \in Values : AddIf(c, v)
    \/ \E c \in BOOLEAN, v \in Values : AddIfCallback(c, v)
    \/ Enter
    \/ LoopIter
    \/ LoopExit
    \/ \E o \in Ops : Invoke(o)

Spec == Init /\ [][Next]_vars

(***************************************************************************)
(* Vocabulary of the properties                                            *)
(***************************************************************************)
\* An empty placeholder: the nil interface value or a nil pointer.
Empty(v) == v = NilIface \/ v = NilPtr

NonEmpty(v) == ~Empty(v)

\* The layer exposes a settable delegate slot of type T.
HasSlot(v) == v \in SlotLayers

Positions(s) == 0 .. (Len(s) - 1)

Distinct(s) == \A a, b \in DOMAIN s : a # b => s[a] # s[b]

Reverse(s) == [k \in 1 .. Len(s) |-> s[Len(s) + 1 - k]]

\* s without its element at position p (0-based).
RemoveAt(s, p) == [k \in 1 .. (Len(s) - 1) |-> IF k <= p THEN s[k] ELSE s[k + 1]]

\* What a call leaves behind that its caller can see.
Outcome(f) == [status |-> f.status, ret |-> f.ret, slot |-> f.slot]

Observed == [status |-> status, ret |-> ret, slot |-> slot]

\* The values met by following delegate slots from v until stop (or a value without a slot).
RECURSIVE Path(_, _, _, _)
Path(sl, v, stop, depth) ==
    IF v = stop \/ v \notin SlotLayers \/ depth = 0 THEN <<v>>
    ELSE <<v>> \o Path(sl, sl[v], stop, depth - 1)

\* The base's token, then the tokens of the layers that declare op, last supplied first.
ExpectedWords(b, ls, o) ==
    LET impl == SelectSeq(ls, LAMBDA l : Implements(l, o))
    IN  <<Token(b, o)>> \o [k \in 1 .. Len(impl) |-> Token(Reverse(impl)[k], o)]

(***************************************************************************)
(* Properties                                                              *)
(***************************************************************************)
C1_Case ==
    /\ pc = "done"
    /\ \E k \in DOMAIN layers : NonEmpty(layers[k])
    /\ \A k \in DOMAIN layers : NonEmpty(layers[k]) => HasSlot(layers[k]) /\ layers[k] # base
    /\ Distinct(SelectSeq(layers, NonEmpty))

C2_EmptyListReturnsBase ==
    (pc = "done" /\ layers = <<>>) =>
        /\ status = "ok"
        /\ ret = base
        /\ writes = <<>>
        /\ slot = NilSlots

C2_Witness == pc = "done" /\ layers = <<>>

\* C3: when the layer list is non-empty and every element is an empty placeholder,
\* Layered returns what Layered(base) returns: the base with a nil error.
C3_AllEmptyReturnsBase ==
    (pc = "done" /\ layers # <<>> /\ \A k \in DOMAIN layers : Empty(layers[k])) =>
        /\ Observed = Outcome(Layered(base, <<>>, NilSlots))
        /\ status = "ok"
        /\ ret = base

\* C4: when any non-empty layer, at any position, has no settable delegate slot, Layered
\* returns a non-nil error together with the zero T, never a layer or the base.
C4_NoSlotIsAnError ==
    (pc = "done" /\ \E k \in DOMAIN layers : NonEmpty(layers[k]) /\ ~HasSlot(layers[k])) =>
        /\ status = "error"
        /\ ret = NilIface

\* C4, the part the code keeps: when every layer is empty or a pointer to a struct whose
\* field named after T, if it has one, is of type T, a layer without a settable field at
\* any position ends the call with the error and the zero T.
C4_StructLayersOnly ==
    (/\ pc = "done"
     /\ \A k \in DOMAIN layers : Empty(layers[k]) \/ layers[k] \in SlotLayers \cup {NoField, ROField}
     /\ \E k \in DOMAIN layers : layers[k] \in {NoField, ROField}) =>
        /\ status = "error"
        /\ ret = NilIface

C5_Case == pc = "done" /\ \E k \in DOMAIN layers : NonEmpty(layers[k])

\* C5: with at least one non-empty layer, taking empty placeholders out of the layer list
\* (one at any position, or all of them) leaves the result of Layered unchanged: the
\* same returned value and error and the same final delegate slot on every layer.
C5_EmptyIsTransparent ==
    C5_Case =>
        /\ Observed = Outcome(Layered(base, SelectSeq(layers, NonEmpty), NilSlots))
        /\ \A p \in Positions(layers) :
              Empty(At(layers, p)) =>
                  Observed = Outcome(Layered(base, RemoveAt(layers, p), NilSlots))

C5_Witness ==
    /\ C5_Case
    /\ Len(layers) = 3
    /\ HasSlot(layers[1]) /\ Empty(layers[2]) /\ HasSlot(layers[3])

C6_Case ==
    /\ op # "none"
    /\ base = "LayerA"
    /\ \A k \in DOMAIN layers : HasSlot(layers[k])
    /\ Distinct(layers)

C6_WitnessFallthrough ==
    /\ C6_Case
    /\ op = "Fruits"
    /\ layers = <<"LayerB", "LayerE", "LayerD">>

\* C7: If(c, L) returns L when c is true and the empty placeholder when c is false;
\* IfCallback(c, f) calls f exactly once and returns its result when c is true, and
\* never calls f and returns the empty placeholder when c is false; and the placeholder
\* is skipped by Layered, so the result equals the one built with L left out.
C7_ConditionalLayers ==
    /\ helper.kind = "If" =>
          helper.result = (IF helper.cond THEN helper.layer ELSE NilIface)
    /\ helper.kind = "IfCallback" =>
          /\ helper.result = (IF helper.cond THEN helper.layer ELSE NilIface)
          /\ helper.calls = (IF helper.cond THEN 1 ELSE 0)
    /\ pc = "done" => Observed = Outcome(Layered(base, kept, NilSlots))

\* C7, the part the code keeps: the helpers' results and calls, and the equal result
\* whenever a non-empty layer remains in the list.
C7_WhenSomeLayerRemains ==
    /\ helper.kind = "If" =>
          helper.result = (IF helper.cond THEN helper.layer ELSE NilIface)
    /\ helper.kind = "IfCallback" =>
          /\ helper.result = (IF helper.cond THEN helper.layer ELSE NilIface)
          /\ helper.calls = (IF helper.cond THEN 1 ELSE 0)
    /\ (pc = "done" /\ \E k \in DOMAIN layers : NonEmpty(layers[k])) =>
          Observed = Outcome(Layered(base, kept, NilSlots))

C8_Case == pc \in {"loop", "done"} /\ layers # <<>>

Usable(p) == getLayerValue(At(layers, p)) = "true"

\* C8: Layered is one left-to-right pass: the outer walk's position strictly increases
\* from one iteration to the next, the positions between a non-empty layer and the next
\* non-empty layer are never processed by the outer walk, each position's delegate slot
\* is written at most once, and the walk takes at most len(layers) iterations.
C8_OnePass ==
    C8_Case =>
        /\ \A a, b \in DOMAIN visited : a < b => visited[a] < visited[b]
        /\ pc = "loop" => \A a \in DOMAIN visited : visited[a] < i
        /\ \A a, b \in DOMAIN visited :
              (Usable(visited[a]) /\ visited[a] < visited[b]) =>
                  \E q \in (visited[a] + 1) .. visited[b] : Usable(q)
        /\ \A a, b \in DOMAIN writes : a # b => writes[a][1] # writes[b][1]
        /\ Len(visited) <= Len(layers)
        /\ pc = "loop" => i <= Len(layers)

\* C8, termination as such: under the fairness of a synchronous call (a loop that can
\* take its next step takes it), every call that enters the loop ends.
FairSpec == Spec /\ WF_vars(LoopIter \/ LoopExit)

C8_Terminates == (pc = "loop") ~> (pc = "done")

C8_Witness ==
    /\ pc = "done"
    /\ Len(layers) = 3
    /\ HasSlot(layers[1]) /\ Empty(layers[2]) /\ HasSlot(layers[3])
    /\ Len(writes) = 2

====
